---- MODULE Spec2Model ----
(***************************************************************************)
(* State-machine model of Backtester._simulate                             *)
(* (src/Platform/Backtest/engine.py), the day-by-day trade simulation of   *)
(* the backtest engine.                                                    *)
(*                                                                         *)
(* Numbers.  The code computes in binary floating point; the model         *)
(* computes the same expressions in exact arithmetic:                      *)
(*   - share counts and prices are integers;                               *)
(*   - the three rates are integers in units of 1/RateDen;                 *)
(*   - target weights are integers in units of 1/WeightDen;                *)
(*   - every amount of money (cash, total_value, a trade's value and cost, *)
(*     a portfolio value) is an integer in units of 1/Scale, with          *)
(*     Scale = RateDen * RateDen, which makes every product of a price, a  *)
(*     share count and two rate factors exact.                             *)
(* A missing cell (NaN) is the empty tuple, a present cell <<n>>.          *)
(* The rows of the price and weight matrices are inputs: the row of a date *)
(* is drawn when the loop reaches that date.                               *)
(***************************************************************************)
EXTENDS Integers, Sequences, FiniteSets, TLC

VARIABLES
    sim,               \* the run: loop position and the locals of _simulate
    twin,              \* a second run on inputs that agree with sim's so far
    diverged,          \* TRUE once the two runs were given different weight rows
    initial_capital,   \* argument, in units of 1/Scale
    transaction_cost,  \* argument, in units of 1/RateDen
    tax,               \* argument, in units of 1/RateDen
    slippage,          \* argument, in units of 1/RateDen
    allow_fractional,  \* argument
    rebalance_dates,   \* argument: a set of date indices
    dates,             \* weights.index: the calendar days of the rows
    tickers,           \* weights.columns, in column order
    run,               \* Backtester.run: its position and its locals
    call               \* a call of a static method: its arguments and its result

vars == <<sim, twin, diverged, initial_capital, transaction_cost, tax,
          slippage, allow_fractional, rebalance_dates, dates, tickers,
          run, call>>

args == <<initial_capital, transaction_cost, tax, slippage,
          allow_fractional, rebalance_dates, dates, tickers>>

----------------------------------------------------------------------------
(* Bounds and units *)

NumDates == 3

RateDen == 10

WeightDen == 2

Scale == RateDen * RateDen

LotSize == 1000

Infinity == 2000000000

Tickers == {tickers[i] : i \in 1..Len(tickers)}

TickerSeq == tickers

Dates == 1..Len(dates)

NaN == <<>>

Num(n) == <<n>>

IsNaN(x) == x = NaN

Val(x) == x[1]

None == <<>>

Some(x) == <<x>>

----------------------------------------------------------------------------
(* Arithmetic helpers *)

Abs(n) == IF n < 0 THEN -n ELSE n

Min(a, b) == IF a <= b THEN a ELSE b

\* floor(a / b) for b # 0
FloorDiv(a, b) ==
    LET n == IF b < 0 THEN -a ELSE a
        d == Abs(b)
        q == Abs(n) \div d
    IN  IF n >= 0 THEN q
        ELSE IF q * d = Abs(n) THEN -q ELSE -(q + 1)

RECURSIVE SumSeq(_, _)
SumSeq(f, seq) ==
    IF seq = <<>> THEN 0 ELSE f[Head(seq)] + SumSeq(f, Tail(seq))

\* Series.fillna(0)
FillNa(row) == [t \in Tickers |-> IF IsNaN(row[t]) THEN 0 ELSE Val(row[t])]

\* (holdings * price).fillna(0), in money units
HoldingsValue(holdings, price) ==
    [t \in Tickers |->
        IF IsNaN(price[t]) THEN 0 ELSE holdings[t] * Val(price[t]) * Scale]

\* cash + holdings_value.sum()
TotalValue(cash, holdings, price) ==
    cash + SumSeq(HoldingsValue(holdings, price), TickerSeq)

----------------------------------------------------------------------------
(* Order sizing: engine.py lines 419-433 *)

\* Variant: the share count is rounded up
TargetSharesRoundedUp(w, total_value, p) ==
    IF IsNaN(p) \/ Val(p) = 0 THEN 0
    ELSE LET unit == IF allow_fractional THEN 1 ELSE LotSize
         IN  -FloorDiv(-(w * total_value), WeightDen * Scale * Val(p) * unit)
             * unit

\* (pending_weights * total_value / price).fillna(0), then floor (fractional
\* shares allowed) or floor to a 1000-share lot.  w is in units of
\* 1/WeightDen, total_value in units of 1/Scale.  Division by a zero price
\* gives +-inf (NaN for 0/0, which fillna turns into 0); floor keeps inf.
TargetShares(w, total_value, p) ==
    IF IsNaN(p) THEN 0
    ELSE IF Val(p) = 0
         THEN IF w * total_value > 0 THEN Infinity
              ELSE IF w * total_value < 0 THEN -Infinity
              ELSE 0
    ELSE IF allow_fractional
         THEN FloorDiv(w * total_value, WeightDen * Scale * Val(p))
         ELSE FloorDiv(w * total_value, WeightDen * Scale * Val(p) * LotSize)
              * LotSize

\* target_shares - holdings
TradeShares(target, held) ==
    IF Abs(target) = Infinity THEN target ELSE target - held

\* Variant: on a rebalance date the order is sized from that date's own
\* weight row
OrderWeightsSameDay(s) ==
    IF s.date \in rebalance_dates THEN FillNa(s.weight_row)
    ELSE s.pending_weights[1]

\* The weights an execution step sizes its orders from: the pending order.
OrderWeights(s) == s.pending_weights[1]

\* [t for t in tickers if trade_shares[t] < -0.01]; share counts are whole
\* numbers, so the threshold is the sign.
SellTickersOf(columns, trade_shares) ==
    SelectSeq(columns, LAMBDA t : trade_shares[t] < 0)

SellTickers(trade_shares) == SellTickersOf(TickerSeq, trade_shares)

\* Variant: the last column is never bought
BuyTickersButLast(columns, trade_shares) ==
    SelectSeq(SubSeq(columns, 1, Len(columns) - 1),
              LAMBDA t : trade_shares[t] > 0)

\* [t for t in tickers if trade_shares[t] > 0.01]
BuyTickersOf(columns, trade_shares) ==
    SelectSeq(columns, LAMBDA t : trade_shares[t] > 0)

BuyTickers(trade_shares) == BuyTickersOf(TickerSeq, trade_shares)

\* Variant: a negative price is taken for a valid one
InvalidPriceNonNegative(p) == IsNaN(p) \/ Val(p) = 0

\* pd.isna(p) or p <= 0
InvalidPrice(p) == IsNaN(p) \/ Val(p) <= 0

----------------------------------------------------------------------------
(* The loop body of _simulate, as functions of the run's state *)

ZeroRow == [t \in Tickers |-> 0]

NaNRow == [t \in Tickers |-> NaN]

\* engine.py lines 404-412: the state before the first date
InitialState ==
    [date |-> 1, pc |-> "loop",
     cash |-> initial_capital,
     holdings |-> ZeroRow,
     portfolio_values |-> <<>>,
     positions_list |-> <<>>,
     trades |-> <<>>,
     pending_weights |-> None,
     price |-> NaNRow,
     weight_row |-> NaNRow,
     total_value |-> 0,
     target_shares |-> ZeroRow,
     trade_shares |-> ZeroRow,
     sell_tickers |-> <<>>,
     buy_tickers |-> <<>>,
     captured |-> <<>>,
     executed |-> <<>>]

\* Lines 414-433: fetch the date's rows; with a pending order, size it.
\* columns is weights.columns, the order in which tickers are listed.
BeginDateOpOn(columns, s, prow, wrow) ==
    LET s1 == [s EXCEPT !.price = prow, !.weight_row = wrow]
    IN  IF s.pending_weights = None
        THEN [s1 EXCEPT !.pc = "capture"]
        ELSE LET tv == TotalValue(s.cash, s.holdings, prow)
                 w == OrderWeights(s1)
                 target == [t \in Tickers |-> TargetShares(w[t], tv, prow[t])]
                 ts == [t \in Tickers |-> TradeShares(target[t], s.holdings[t])]
             IN  [s1 EXCEPT !.pc = "exec",
                            !.total_value = tv,
                            !.target_shares = target,
                            !.trade_shares = ts,
                            !.sell_tickers = SellTickersOf(columns, ts),
                            !.buy_tickers = BuyTickersOf(columns, ts)]

BeginDateOp(s, prow, wrow) == BeginDateOpOn(TickerSeq, s, prow, wrow)

\* Variant: the buy loop runs first
NextIsSellAfterBuys(s) == s.sell_tickers # <<>> /\ s.buy_tickers = <<>>

\* The sell loop (lines 435-451) runs to its end before the buy loop starts.
NextIsSell(s) == s.sell_tickers # <<>>

\* Variant: the sale is not capped by the shares held
SellSharesUncapped(shares, held) == Abs(shares)

\* min(abs(shares), holdings[ticker])
SellShares(shares, held) == Min(Abs(shares), held)

\* Variant: the tax is not taken from the cash
SellCashTaxFree(cash, proceeds, fee, tax_cost) == cash + proceeds - fee

\* cash += proceeds - fee - tax_cost
SellCash(cash, proceeds, fee, tax_cost) == cash + proceeds - fee - tax_cost

\* Lines 435-451: one iteration of the sell loop
SellOp(s) ==
    LET ticker == Head(s.sell_tickers)
        shares == s.trade_shares[ticker]
        p == s.price[ticker]
        rest == [s EXCEPT !.sell_tickers = Tail(s.sell_tickers)]
    IN  IF InvalidPrice(p) THEN rest
        ELSE LET sell_shares == SellShares(shares, s.holdings[ticker])
                 proceeds == sell_shares * Val(p) * (RateDen - slippage) * RateDen
                 fee == sell_shares * Val(p) * (RateDen - slippage) * transaction_cost
                 tax_cost == sell_shares * Val(p) * (RateDen - slippage) * tax
             IN  IF sell_shares > 0
                 THEN [rest EXCEPT
                         !.cash = SellCash(s.cash, proceeds, fee, tax_cost),
                         !.holdings[ticker] = s.holdings[ticker] - sell_shares,
                         !.trades = Append(s.trades,
                             [date |-> s.date, ticker |-> ticker,
                              action |-> "SELL", shares |-> -sell_shares,
                              price |-> Val(p), value |-> proceeds,
                              cost |-> fee + tax_cost])]
                 ELSE rest

\* Variant: a buy that would use up the cash exactly is refused
AffordableStrict(total_cost, cash) == total_cost < cash

\* Variant: the buy is not checked against the cash balance
AffordableUnchecked(total_cost, cash) == TRUE

\* total_cost <= cash
Affordable(total_cost, cash) == total_cost <= cash

\* Lines 453-467: one iteration of the buy loop
BuyOp(s) ==
    LET ticker == Head(s.buy_tickers)
        shares == s.trade_shares[ticker]
        p == s.price[ticker]
        rest == [s EXCEPT !.buy_tickers = Tail(s.buy_tickers)]
    IN  IF InvalidPrice(p) THEN rest
        ELSE LET cost == shares * Val(p) * (RateDen + slippage) * RateDen
                 fee == shares * Val(p) * (RateDen + slippage) * transaction_cost
                 total_cost == cost + fee
             IN  IF Affordable(total_cost, s.cash)
                 THEN [rest EXCEPT
                         !.cash = s.cash - total_cost,
                         !.holdings[ticker] = s.holdings[ticker] + shares,
                         !.trades = Append(s.trades,
                             [date |-> s.date, ticker |-> ticker,
                              action |-> "BUY", shares |-> shares,
                              price |-> Val(p), value |-> cost,
                              cost |-> fee])]
                 ELSE rest

\* Variant: the executed order stays pending
ClearPendingKept(s) ==
    [s EXCEPT !.pc = "capture",
              !.executed = Append(s.executed,
                  [date |-> s.date, w |-> s.pending_weights[1]])]

\* Line 469: the executed order is discarded.  executed records the order
\* and the date of its execution.
ClearPendingOp(s) ==
    [s EXCEPT !.pending_weights = None,
              !.pc = "capture",
              !.executed = Append(s.executed,
                  [date |-> s.date, w |-> s.pending_weights[1]])]

\* Lines 471-472: on a rebalance date the date's weight row becomes the
\* pending order.  captured records the row and the date of its capture.
CaptureOp(s) ==
    IF s.date \in rebalance_dates
    THEN [s EXCEPT !.pending_weights = Some(FillNa(s.weight_row)),
                   !.captured = Append(s.captured,
                       [date |-> s.date, w |-> FillNa(s.weight_row)])]
    ELSE s

\* Variant: on an execution date the value computed for sizing the order
\* (line 420, before the trades) is appended instead of a fresh valuation
ValuationBeforeTrades(s) ==
    [s EXCEPT !.portfolio_values =
                  Append(s.portfolio_values,
                         IF s.executed # <<>> /\ s.executed[Len(s.executed)].date = s.date
                         THEN s.total_value
                         ELSE TotalValue(s.cash, s.holdings, s.price)),
              !.positions_list = Append(s.positions_list, s.holdings)]

\* Lines 474-477: value the portfolio at the date's prices, after the trades
ValuationOp(s) ==
    [s EXCEPT !.portfolio_values =
                  Append(s.portfolio_values,
                         TotalValue(s.cash, s.holdings, s.price)),
              !.positions_list = Append(s.positions_list, s.holdings)]

\* Variant: the loop skips every other date
NextDateSkipping(date) == date + 2

\* for date in dates: the position of the next date in the index
NextDate(date) == date + 1

\* Lines 471-477 and the loop's advance to the next date
EndDateOp(s) ==
    [ValuationOp(CaptureOp(s)) EXCEPT !.date = NextDate(s.date), !.pc = "loop"]

\* Lines 435-469 as one function: all sells, then all buys, then the discard
RECURSIVE ExecAll(_)
ExecAll(s) ==
    IF NextIsSell(s) THEN ExecAll(SellOp(s))
    ELSE IF s.buy_tickers # <<>> THEN ExecAll(BuyOp(s))
    ELSE ClearPendingOp(s)

\* One whole iteration of the loop (lines 414-477)
RunDateOn(columns, s, prow, wrow) ==
    LET b == BeginDateOpOn(columns, s, prow, wrow)
    IN  EndDateOp(IF b.pc = "exec" THEN ExecAll(b) ELSE b)

RunDate(s, prow, wrow) == RunDateOn(TickerSeq, s, prow, wrow)

----------------------------------------------------------------------------
(* Inputs *)

\* A weight of 1.0 and of 0.5, in units of 1/WeightDen
Full == WeightDen

Half == WeightDen \div 2

Row(a, b) == [t \in Tickers |-> IF t = "A" THEN a ELSE b]

\* Rate arguments, in units of 1/RateDen
Rates == {0, 1}

\* <<initial_capital, allow_fractional>>: a small account trading single
\* shares and an account large enough to trade 1000-share lots
Accounts == {<<5, TRUE>>, <<3000, FALSE>>}

\* Price rows with every price present and positive
PriceRows == {Row(Num(a), Num(b)) : a \in {1, 2}, b \in {1, 2}}

\* Weight rows: all in one ticker, an even split, a row summing to more
\* than 1, and a row of missing weights
WeightRows ==
    {Row(Num(Full), Num(0)), Row(Num(0), Num(Full)), Row(Num(Half), Num(Half)),
     Row(Num(Full), Num(Half)), NaNRow}

\* The weight row of a date is read on a rebalance date only (line 471)
RowsRead(rows) ==
    IF sim.date \in rebalance_dates THEN rows ELSE {NaNRow}

----------------------------------------------------------------------------
(* Initial states *)

InitArgs(accounts) ==
    /\ tickers = <<"A", "B">>
    /\ dates = [i \in 1..NumDates |-> i]
    /\ \E a \in accounts :
          /\ initial_capital = a[1] * Scale
          /\ allow_fractional = a[2]
    /\ transaction_cost \in Rates
    /\ tax \in Rates
    /\ slippage \in Rates
    /\ rebalance_dates \in SUBSET Dates

Idle == [pc |-> "idle"]

InitRuns ==
    /\ sim = InitialState
    /\ twin = InitialState
    /\ diverged = FALSE
    /\ run = Idle
    /\ call = Idle

Init == InitArgs(Accounts) /\ InitRuns

----------------------------------------------------------------------------
(* Actions: the steps of _simulate *)

\* for date in dates: price = close.loc[date]; size the pending order
BeginDate(prow, wrow) ==
    /\ sim.pc = "loop"
    /\ sim.date <= Len(dates)
    /\ sim' = BeginDateOp(sim, prow, wrow)
    /\ UNCHANGED <<twin, diverged, args, run, call>>

\* for ticker in sell_tickers
SellOne ==
    /\ sim.pc = "exec"
    /\ NextIsSell(sim)
    /\ sim' = SellOp(sim)
    /\ UNCHANGED <<twin, diverged, args, run, call>>

\* for ticker in buy_tickers
BuyOne ==
    /\ sim.pc = "exec"
    /\ ~NextIsSell(sim)
    /\ sim.buy_tickers # <<>>
    /\ sim' = BuyOp(sim)
    /\ UNCHANGED <<twin, diverged, args, run, call>>

\* pending_weights = None
ClearPending ==
    /\ sim.pc = "exec"
    /\ sim.sell_tickers = <<>>
    /\ sim.buy_tickers = <<>>
    /\ sim' = ClearPendingOp(sim)
    /\ UNCHANGED <<twin, diverged, args, run, call>>

\* signal capture, valuation, next date
EndDate ==
    /\ sim.pc = "capture"
    /\ sim' = EndDateOp(sim)
    /\ UNCHANGED <<twin, diverged, args, run, call>>

\* return portfolio_value, positions, trades
Return ==
    /\ sim.pc = "loop"
    /\ sim.date > Len(dates)
    /\ sim' = [sim EXCEPT !.pc = "done"]
    /\ UNCHANGED <<twin, diverged, args, run, call>>

Next ==
    \/ \E prow \in PriceRows, wrow \in RowsRead(WeightRows) :
          BeginDate(prow, wrow)
    \/ SellOne
    \/ BuyOne
    \/ ClearPending
    \/ EndDate
    \/ Return

Spec == Init /\ [][Next]_vars

----------------------------------------------------------------------------
(* Runs over price rows in which ticker A may be missing, zero or negative *)

InvalidPriceRows ==
    {Row(a, Num(1)) : a \in {NaN, Num(0), Num(-1), Num(1), Num(2)}}

TargetRows ==
    {Row(Num(Full), Num(0)), Row(Num(0), Num(Full)), Row(Num(Half), Num(Half))}

\* Weight rows for these runs, two of them not summing to 1
InvalidWeightRows == TargetRows \cup {Row(Num(Full), Num(Full)), NaNRow}

InitInvalid == InitArgs({<<5, TRUE>>}) /\ InitRuns

NextInvalid ==
    \/ \E prow \in InvalidPriceRows, wrow \in RowsRead(InvalidWeightRows) :
          BeginDate(prow, wrow)
    \/ SellOne
    \/ BuyOne
    \/ ClearPending
    \/ EndDate
    \/ Return

SpecInvalid == InitInvalid /\ [][NextInvalid]_vars

----------------------------------------------------------------------------
(* Properties *)

Last(seq) == seq[Len(seq)]

\* The price cell is missing, zero or negative
MissingZeroOrNegative(p) == p = NaN \/ p[1] <= 0

\* The run is between two dates (or past the last one): the previous date's
\* step is complete and sim.price is still that date's price row.
DateComplete == sim.pc \in {"loop", "done"} /\ sim.portfolio_values # <<>>

\* What a ticker adds to a portfolio value: shares times price, nothing
\* when the price is missing
Contribution(t) ==
    IF sim.price[t] = NaN THEN 0 ELSE sim.holdings[t] * sim.price[t][1] * Scale

\* C3. Value conservation: the value appended for a date equals the cash at
\* the end of that date's step plus holdings times that date's prices, a
\* missing price contributing 0; the appended holdings row is the holdings
\* at the end of the step.
C3_ValueConservation ==
    DateComplete =>
        /\ Last(sim.portfolio_values)
             = sim.cash + Contribution("A") + Contribution("B")
        /\ Last(sim.positions_list) = sim.holdings

\* C3 witness: a date on which trades were executed at a cost and a held
\* ticker has no price has been valued.
C3_Witness ==
    /\ DateComplete
    /\ sim.trades # <<>>
    /\ Last(sim.trades).date = sim.date - 1
    /\ Last(sim.trades).cost > 0
    /\ \E t \in Tickers : sim.price[t] = NaN /\ sim.holdings[t] > 0

\* C5. Non-negative holdings: in every state, between any two sells or buys
\* as well, and in every row of the holdings table, every share count is
\* >= 0.
C5_NonNegativeHoldings ==
    /\ \A t \in Tickers : sim.holdings[t] >= 0
    /\ \A i \in 1..Len(sim.positions_list) :
          \A t \in Tickers : sim.positions_list[i][t] >= 0

\* C5 witness: a sell of more shares than are held is ordered (the target is
\* negative because a negative price made the total value negative) and the
\* sell loop has handled it.
C5_Witness ==
    /\ sim.pc = "exec"
    /\ sim.sell_tickers = <<>>
    /\ \E t \in Tickers :
          /\ sim.trade_shares[t] < 0
          /\ -sim.trade_shares[t] > sim.holdings[t]
          /\ ~MissingZeroOrNegative(sim.price[t])

\* C6. Cash never goes negative: with initial_capital >= 0, slippage <= 1
\* and fee_rate + tax_rate <= 1 the cash balance is >= 0 in every state,
\* after each single sell and buy.
C6_CashNonNegative ==
    (initial_capital >= 0 /\ slippage <= RateDen
        /\ transaction_cost + tax <= RateDen)
    => sim.cash >= 0

\* C6 witness: a buy has just executed that the cash balance could pay for
\* only because of a sale on the same date.
C6_Witness ==
    /\ sim.pc = "exec"
    /\ Len(sim.trades) >= 2
    /\ LET buy == sim.trades[Len(sim.trades)]
           sell == sim.trades[Len(sim.trades) - 1]
       IN  /\ buy.action = "BUY" /\ buy.date = sim.date
           /\ sell.action = "SELL" /\ sell.date = sim.date
           /\ sim.cash < sell.value - sell.cost
           /\ buy.cost > 0

\* C4. Sell-before-buy: in the trade log no BUY of a date is at an earlier
\* position than a SELL of the same date, and once the buy loop of an
\* execution step has handled its first ticker no sell is outstanding.
C4_SellBeforeBuy ==
    /\ \A i, j \in 1..Len(sim.trades) :
          (i < j /\ sim.trades[i].date = sim.trades[j].date
                 /\ sim.trades[i].action = "BUY")
          => sim.trades[j].action = "BUY"
    /\ (sim.pc = "exec" /\ sim.buy_tickers # BuyTickers(sim.trade_shares))
          => sim.sell_tickers = <<>>

\* C4 witness: a SELL and a BUY have been logged on one date, the ticker
\* sold coming after the ticker bought in column order.
C4_Witness ==
    \E i, j \in 1..Len(sim.trades) :
        /\ sim.trades[i].date = sim.trades[j].date
        /\ sim.trades[i].action = "SELL" /\ sim.trades[i].ticker = "B"
        /\ sim.trades[j].action = "BUY" /\ sim.trades[j].ticker = "A"

\* The buy loop is about to handle a ticker with a valid price
BuyAttempt ==
    /\ sim.pc = "exec"
    /\ sim.sell_tickers = <<>>
    /\ sim.buy_tickers # <<>>
    /\ ~MissingZeroOrNegative(sim.price[Head(sim.buy_tickers)])

\* shares x price x (1 + slippage) x (1 + fee_rate), in money units
BuyTotalCost ==
    LET t == Head(sim.buy_tickers)
    IN  sim.trade_shares[t] * sim.price[t][1]
            * (RateDen + slippage) * (RateDen + transaction_cost)

\* C7. Insufficient cash skips only that buy: a buy whose total cost is
\* strictly greater than the cash at that moment changes neither cash nor
\* holdings and logs nothing, and the loop goes on to the next buy ticker;
\* a buy whose total cost is at most the cash (equal included) executes in
\* full.
C7_SkipUnaffordableBuy ==
    [][BuyAttempt =>
        LET t == Head(sim.buy_tickers)
        IN  /\ sim'.pc = "exec"
            /\ sim'.buy_tickers = Tail(sim.buy_tickers)
            /\ IF BuyTotalCost > sim.cash
               THEN /\ sim'.cash = sim.cash
                    /\ sim'.holdings = sim.holdings
                    /\ sim'.trades = sim.trades
               ELSE /\ sim'.cash = sim.cash - BuyTotalCost
                    /\ sim'.holdings =
                         [sim.holdings EXCEPT ![t] = @ + sim.trade_shares[t]]
                    /\ Len(sim'.trades) = Len(sim.trades) + 1
                    /\ SubSeq(sim'.trades, 1, Len(sim.trades)) = sim.trades
                    /\ Last(sim'.trades).action = "BUY"
                    /\ Last(sim'.trades).ticker = t
                    /\ Last(sim'.trades).shares = sim.trade_shares[t]
    ]_vars

\* C7 witness: in one execution step the buy of A was skipped for lack of
\* cash and the later buy of B executed.
C7_Witness ==
    /\ sim.pc = "exec"
    /\ sim.buy_tickers = <<>>
    /\ sim.trade_shares["A"] > 0
    /\ sim.trade_shares["B"] > 0
    /\ ~MissingZeroOrNegative(sim.price["A"])
    /\ \A i \in 1..Len(sim.trades) :
          sim.trades[i].date = sim.date => sim.trades[i].ticker = "B"
    /\ sim.trades # <<>>
    /\ Last(sim.trades).date = sim.date
    /\ Last(sim.trades).action = "BUY"

\* The dates whose execution phase is over
ExecutionDone == IF sim.pc = "capture" THEN sim.date ELSE sim.date - 1

\* The dates whose capture phase is over
CaptureDone == sim.date - 1

\* C2. Pending-order lifecycle: the weight row of every rebalance date T
\* (missing -> 0) becomes the single pending order at T; it is executed
\* exactly once, on the next date, and then discarded; at the start of a
\* date an order is pending exactly if the preceding date is a rebalance
\* date; on each date the old order is executed before the new one is
\* captured.
C2_PendingLifecycle ==
    /\ sim.pc \in {"loop", "done"} =>
          /\ (sim.pending_weights # None) <=> (sim.date - 1 \in rebalance_dates)
          /\ sim.pending_weights # None =>
                sim.pending_weights = Some(FillNa(sim.weight_row))
    /\ sim.pc = "exec" =>
          /\ sim.pending_weights # None
          /\ Last(sim.captured).date = sim.date - 1
          /\ sim.pending_weights = Some(Last(sim.captured).w)
    /\ sim.pc = "capture" => sim.pending_weights = None
    /\ Len(sim.captured) = Cardinality({d \in rebalance_dates : d <= CaptureDone})
    /\ \A k \in 1..Len(sim.captured) :
          /\ sim.captured[k].date \in rebalance_dates
          /\ k > 1 => sim.captured[k - 1].date < sim.captured[k].date
    /\ Len(sim.executed)
          = Cardinality({d \in rebalance_dates : d + 1 <= ExecutionDone})
    /\ \A k \in 1..Len(sim.executed) :
          /\ sim.executed[k].date = sim.captured[k].date + 1
          /\ sim.executed[k].w = sim.captured[k].w

\* C2 witness: two orders were captured and each was executed on the date
\* after its capture; a third, captured on the last date, is still pending.
C2_Witness ==
    /\ sim.pc = "done"
    /\ Len(sim.executed) >= 2
    /\ Len(sim.captured) = Len(sim.executed) + 1
    /\ sim.trades # <<>>

----------------------------------------------------------------------------
(* Two runs side by side.  Both get the same arguments and the same price   *)
(* rows; their weight rows agree up to the previous date and may differ on  *)
(* the current one.  twin completes each date at the moment sim begins it.  *)

PairBeginDate(prow, wrow, wrow2) ==
    /\ sim.pc = "loop"
    /\ sim.date <= Len(dates)
    /\ ~diverged
    /\ sim' = BeginDateOp(sim, prow, wrow)
    /\ twin' = RunDate(twin, prow, wrow2)
    /\ diverged' = (wrow # wrow2)
    /\ UNCHANGED <<args, run, call>>

InitPair == InitArgs({<<5, TRUE>>}) /\ InitRuns

NextPair ==
    \/ \E prow \in PriceRows :
          \E wrow \in RowsRead(TargetRows), wrow2 \in RowsRead(TargetRows) :
             PairBeginDate(prow, wrow, wrow2)
    \/ SellOne
    \/ BuyOne
    \/ ClearPending
    \/ EndDate
    \/ Return

SpecPair == InitPair /\ [][NextPair]_vars

\* C1. No lookahead: two runs whose price rows agree up to date i and
\* whose weight rows agree up to date i-1 have identical trades, holdings
\* and portfolio values up to and including date i, whatever the weight row
\* of date i is: the trades of date i are sized from the weight row of date
\* i-1, the prices of date i and the state at the end of date i-1.
C1_NoLookahead ==
    sim.pc \in {"loop", "done"} =>
        /\ twin.date = sim.date
        /\ sim.trades = twin.trades
        /\ sim.portfolio_values = twin.portfolio_values
        /\ sim.positions_list = twin.positions_list
        /\ sim.cash = twin.cash
        /\ sim.holdings = twin.holdings

\* C1 witness: the two runs were given different weight rows on a date on
\* which an order was executed, and now hold different pending orders.
C1_Witness ==
    /\ sim.pc = "loop"
    /\ diverged
    /\ sim.trades # <<>>
    /\ Last(sim.trades).date = sim.date - 1
    /\ sim.pending_weights # twin.pending_weights

----------------------------------------------------------------------------
(* Scenario 1: initial_capital = 1,000,000, the first date a rebalance     *)
(* date with weight row {A: 1.0}, fractional shares allowed, the price of  *)
(* A constant at 100.  The rest (the rates, the price of B, the later      *)
(* rebalance dates and their weight rows) is free.                         *)

DefaultCapital == 1000000

Scenario1PriceRows == {Row(Num(100), b) : b \in {NaN, Num(100)}}

Scenario1WeightRows ==
    IF sim.date = 1
    THEN {Row(Num(Full), NaN), Row(Num(Full), Num(0))}
    ELSE RowsRead(TargetRows \cup {NaNRow})

InitScenario1 ==
    /\ InitArgs({<<DefaultCapital, TRUE>>})
    /\ 1 \in rebalance_dates
    /\ InitRuns

NextScenario1 ==
    \/ \E prow \in Scenario1PriceRows, wrow \in Scenario1WeightRows :
          BeginDate(prow, wrow)
    \/ SellOne
    \/ BuyOne
    \/ ClearPending
    \/ EndDate
    \/ Return

SpecScenario1 == InitScenario1 /\ [][NextScenario1]_vars

\* floor(1.0 x 1,000,000 / 100)
Scenario1Shares == DefaultCapital \div 100

\* What the purchase of Scenario1Shares shares at 100 costs, fee included
Scenario1TotalCost ==
    Scenario1Shares * 100 * (RateDen + slippage) * (RateDen + transaction_cost)

\* C8 as stated (refuted). Scenario 1 for every non-negative fee, tax and
\* slippage rate: holdings[A] on date 2 is floor(1.0 x total_value / 100)
\* = 10,000 shares, and the date-3 value is the cash after that purchase
\* plus holdings x price on date 3.
C8_Scenario1AnyRates ==
    /\ Len(sim.positions_list) >= 2 =>
          sim.positions_list[2]["A"] = Scenario1Shares
    /\ (Len(sim.portfolio_values) >= 3 /\ 2 \notin rebalance_dates) =>
          sim.portfolio_values[3]
            = (initial_capital - Scenario1TotalCost)
              + Scenario1Shares * 100 * Scale

\* C8 (amended). Scenario 1: with fee and slippage rates both 0 (any tax
\* rate) holdings[A] on date 2 is floor(1.0 x total_value / 100) = 10,000;
\* with a positive fee or slippage rate the purchase costs more than the
\* cash of 1,000,000 and is skipped, so holdings[A] on date 2 is 0.  In
\* both cases, when date 2 is no rebalance date, the date-3 value is the
\* cash after date 2 plus holdings x price on date 3.
C8_Scenario1 ==
    LET bought == transaction_cost = 0 /\ slippage = 0
        held == IF bought THEN Scenario1Shares ELSE 0
        cash_after == IF bought THEN initial_capital - Scenario1TotalCost
                      ELSE initial_capital
    IN  /\ Len(sim.positions_list) >= 2 =>
              sim.positions_list[2]["A"] = held
        /\ (Len(sim.portfolio_values) >= 3 /\ 2 \notin rebalance_dates) =>
              sim.portfolio_values[3] = cash_after + held * 100 * Scale

\* C8 witness: with positive fee and slippage rates three dates have been
\* simulated, date 2 being no rebalance date, and the purchase of A on
\* date 2 was skipped.
C8_Witness ==
    /\ transaction_cost > 0
    /\ slippage > 0
    /\ 2 \notin rebalance_dates
    /\ Len(sim.portfolio_values) >= 3
    /\ sim.captured[1].w["A"] = Full
    /\ sim.executed[1].date = 2
    /\ sim.positions_list[2]["A"] = 0
    /\ sim.trades = <<>>

----------------------------------------------------------------------------
(* Scenario 2: the first two dates are rebalance dates, with weight rows   *)
(* {A: 1.0} and {A: 0.0, B: 1.0}; every price is present and positive.     *)

Scenario2WeightRows ==
    IF sim.date = 1 THEN {Row(Num(Full), Num(0)), Row(Num(Full), NaN)}
    ELSE IF sim.date = 2 THEN {Row(Num(0), Num(Full))}
    ELSE RowsRead(TargetRows)

InitScenario2 ==
    /\ InitArgs(Accounts)
    /\ {1, 2} \subseteq rebalance_dates
    /\ InitRuns

NextScenario2 ==
    \/ \E prow \in PriceRows, wrow \in Scenario2WeightRows :
          BeginDate(prow, wrow)
    \/ SellOne
    \/ BuyOne
    \/ ClearPending
    \/ EndDate
    \/ Return

SpecScenario2 == InitScenario2 /\ [][NextScenario2]_vars

\* Position in the log of the trade of the given action and ticker on the
\* date after the second rebalance date (date 3); 0 if there is none
TradeAt3(action, ticker) ==
    LET hits == {i \in 1..Len(sim.trades) :
                    /\ sim.trades[i].date = 3
                    /\ sim.trades[i].action = action
                    /\ sim.trades[i].ticker = ticker}
    IN  IF hits = {} THEN 0 ELSE CHOOSE i \in hits : TRUE

\* The execution step of date 3 is over
Date3Executed == Len(sim.executed) >= 2

----------------------------------------------------------------------------
(* Missing and invalid prices (runs of SpecInvalid) *)

\* Holdings of a ticker at the end of the previous date
HeldBefore(t) ==
    IF sim.date = 1 THEN 0 ELSE sim.positions_list[sim.date - 1][t]

\* A sell or buy iteration is about to handle the given ticker
Handling(t) ==
    /\ sim.pc = "exec"
    /\ \/ sim.sell_tickers # <<>> /\ Head(sim.sell_tickers) = t
       \/ sim.sell_tickers = <<>> /\ sim.buy_tickers # <<>>
            /\ Head(sim.buy_tickers) = t

\* shares x price of a ticker whose price is present and positive, else 0
ValidContribution(t) ==
    IF MissingZeroOrNegative(sim.price[t]) THEN 0
    ELSE sim.holdings[t] * sim.price[t][1] * Scale

\* C10 as stated (refuted). A ticker whose price is missing, zero or
\* negative contributes 0 to that date's portfolio value.
C10_InvalidPriceValuedZero ==
    DateComplete =>
        Last(sim.portfolio_values)
          = sim.cash + ValidContribution("A") + ValidContribution("B")

\* No trade of the current date is in a ticker whose price is invalid, and
\* such a ticker's holdings are those of the end of the previous date.
NoTradeAtInvalidPrice ==
    sim.pc \in {"exec", "capture"} =>
        \A t \in Tickers :
            MissingZeroOrNegative(sim.price[t]) =>
                /\ sim.holdings[t] = HeldBefore(t)
                /\ \A i \in 1..Len(sim.trades) :
                      sim.trades[i].date = sim.date =>
                          sim.trades[i].ticker # t

\* In valuation a missing or zero price contributes 0 and a negative price
\* contributes shares x price, a negative amount.
ValuationAtInvalidPrice ==
    DateComplete =>
        /\ Last(sim.portfolio_values)
             = sim.cash + Contribution("A") + Contribution("B")
        /\ \A t \in Tickers :
              /\ (sim.price[t] = NaN \/ sim.price[t] = Num(0)) =>
                    Contribution(t) = 0
              /\ (sim.price[t] # NaN /\ sim.price[t][1] < 0) =>
                    Contribution(t) = - (sim.holdings[t] * Scale * Abs(sim.price[t][1]))
              /\ ~MissingZeroOrNegative(sim.price[t]) =>
                    Contribution(t) = ValidContribution(t)

\* The loop iteration of a ticker with an invalid price changes nothing
\* but the loop's position.
InvalidPriceSkipped ==
    \A t \in Tickers :
        (Handling(t) /\ MissingZeroOrNegative(sim.price[t])) =>
            /\ sim'.cash = sim.cash
            /\ sim'.holdings = sim.holdings
            /\ sim'.trades = sim.trades
            /\ sim'.pc = "exec"

\* C10 (amended). On an execution date no trade is emitted for a ticker
\* whose price is missing, zero or negative, and its iteration leaves cash
\* and holdings unchanged, whether a buy or a sell was ordered; in
\* valuation a missing or zero price contributes 0 to that date's value
\* only (the retained shares count again at any later price), while a
\* negative price contributes shares x price, a negative amount.
C10_InvalidPrice ==
    /\ [](NoTradeAtInvalidPrice /\ ValuationAtInvalidPrice)
    /\ [][InvalidPriceSkipped]_vars

\* C10 witness: shares of A are held, an order to trade A met a negative
\* price and was skipped, and the date has been valued.
C10_Witness ==
    /\ DateComplete
    /\ sim.executed # <<>>
    /\ Last(sim.executed).date = sim.date - 1
    /\ sim.price["A"] = Num(-1)
    /\ sim.trade_shares["A"] # 0
    /\ sim.holdings["A"] > 0
    /\ sim.holdings["A"] = sim.positions_list[sim.date - 2]["A"]

----------------------------------------------------------------------------
(* Trade accounting *)

RECURSIVE CashFlow(_)
\* What the recorded trades add to the cash: value - cost of every SELL,
\* minus value + cost of every BUY
CashFlow(trades) ==
    IF trades = <<>> THEN 0
    ELSE LET tr == Head(trades)
         IN  (IF tr.action = "SELL" THEN tr.value - tr.cost
              ELSE -(tr.value + tr.cost))
             + CashFlow(Tail(trades))

RECURSIVE SignedShares(_, _)
\* The signed shares of the recorded trades of ticker t
SignedShares(trades, t) ==
    IF trades = <<>> THEN 0
    ELSE (IF Head(trades).ticker = t THEN Head(trades).shares ELSE 0)
         + SignedShares(Tail(trades), t)

\* The record's value and cost are the ones the claim gives: shares x price
\* x (1 -+ slippage) in units of 1/Scale, and that value times fee + tax
\* (SELL) or fee (BUY)
TradeRecorded(tr) ==
    IF tr.action = "SELL"
    THEN /\ tr.shares < 0
         /\ tr.value = (-tr.shares) * tr.price * (RateDen - slippage) * RateDen
         /\ tr.cost * RateDen = tr.value * (transaction_cost + tax)
    ELSE /\ tr.action = "BUY"
         /\ tr.shares > 0
         /\ tr.value = tr.shares * tr.price * (RateDen + slippage) * RateDen
         /\ tr.cost * RateDen = tr.value * transaction_cost

\* C19. Trade accounting: at the end of every date the cash equals
\* initial_capital plus value - cost of every SELL recorded so far minus
\* value + cost of every BUY recorded so far; each ticker's holdings equal
\* the sum of the signed shares of its trades; a SELL's value is shares
\* sold x price x (1 - slippage) and its cost is value x (fee + tax); a
\* BUY's value is shares x price x (1 + slippage) and its cost value x fee.
C19_TradeAccounting ==
    DateComplete =>
        /\ sim.cash = initial_capital + CashFlow(sim.trades)
        /\ \A t \in Tickers : sim.holdings[t] = SignedShares(sim.trades, t)
        /\ \A i \in 1..Len(sim.trades) : TradeRecorded(sim.trades[i])

\* A date is complete after a taxed sale with fee and slippage and a buy
C19_Witness ==
    /\ DateComplete
    /\ tax > 0 /\ transaction_cost > 0 /\ slippage > 0
    /\ \E i, j \in 1..Len(sim.trades) :
          /\ sim.trades[i].action = "SELL"
          /\ sim.trades[j].action = "BUY"

----------------------------------------------------------------------------
(* Share rounding *)

\* Ticker t was bought in the execution step of the current date
BoughtNow(t) ==
    \E i \in 1..Len(sim.trades) :
       /\ sim.trades[i].date = sim.date
       /\ sim.trades[i].ticker = t
       /\ sim.trades[i].action = "BUY"

\* C20. Share rounding: with allow_fractional = False the holdings on every
\* date and the shares of every trade are multiples of 1000, with
\* allow_fractional = True they are whole numbers; in both modes, after a
\* buy executes, holdings x price of that ticker does not exceed its target
\* weight x the total value computed at the start of the execution step.
C20_ShareRounding ==
    /\ \A t \in Tickers :
          /\ sim.holdings[t] \in Int
          /\ ~allow_fractional => sim.holdings[t] % LotSize = 0
    /\ \A i \in 1..Len(sim.positions_list), t \in Tickers :
          ~allow_fractional => sim.positions_list[i][t] % LotSize = 0
    /\ \A i \in 1..Len(sim.trades) :
          /\ sim.trades[i].shares \in Int
          /\ ~allow_fractional => sim.trades[i].shares % LotSize = 0
    /\ sim.pc = "exec" =>
          \A t \in Tickers :
             BoughtNow(t) =>
                sim.holdings[t] * sim.price[t][1] * Scale * WeightDen
                   <= sim.pending_weights[1][t] * sim.total_value

\* A whole lot was bought in lot mode, for less than the target weight's
\* share of the value
C20_Witness ==
    /\ ~allow_fractional
    /\ sim.pc = "exec"
    /\ \E t \in Tickers :
          /\ BoughtNow(t)
          /\ sim.holdings[t] >= LotSize
          /\ sim.holdings[t] * sim.price[t][1] * Scale * WeightDen
                < sim.pending_weights[1][t] * sim.total_value

----------------------------------------------------------------------------
(* The rebalance schedule: engine.py lines 372-386.  A date is a day        *)
(* number, day 0 being Monday 2024-01-01; an index is an ascending sequence *)
(* of days.                                                                  *)

\* How many candidate days the index of a schedule call is drawn from
WindowLen == 10

\* The candidate days: Friday 2024-01-26 onwards, across two week ends and
\* the end of January
Window == 25..(24 + WindowLen)

\* dates.to_period('W'): weeks run from Monday to Sunday
Week(d) == d \div 7

\* dates.to_period('M'), for the first months of 2024
Month(d) == IF d < 31 THEN 1 ELSE IF d < 60 THEN 2 ELSE 3

Period(d, freq) == IF freq = "weekly" THEN Week(d) ELSE Month(d)

RECURSIVE Ascending(_)
\* The days of a set as an index
Ascending(S) ==
    IF S = {} THEN <<>>
    ELSE LET m == CHOOSE x \in S : \A y \in S : x <= y
         IN  <<m>> \o Ascending(S \ {m})

Elements(seq) == {seq[i] : i \in 1..Len(seq)}

\* Variant: the first date of each period is taken
FirstOfGroup(group) == group[1]

\* .last() of one group of the groupby
LastOfGroup(group) == group[Len(group)]

\* _get_rebalance_dates(dates, freq)
GetRebalanceDates(index, freq) ==
    IF freq \in {"weekly", "monthly"}
    THEN {LastOfGroup(SelectSeq(index, LAMBDA d : Period(d, freq) = k)) :
             k \in {Period(d, freq) : d \in Elements(index)}}
    ELSE Elements(index)

Freqs == {"daily", "weekly", "monthly", "quarterly"}

\* No simulation is under way
NoSimulation ==
    /\ dates = <<>>
    /\ initial_capital = 0
    /\ transaction_cost = 0
    /\ tax = 0
    /\ slippage = 0
    /\ allow_fractional = TRUE
    /\ rebalance_dates = {}
    /\ sim = Idle
    /\ twin = Idle
    /\ diverged = FALSE

InitSchedule ==
    /\ NoSimulation
    /\ tickers = <<>>
    /\ run = Idle
    /\ \E S \in SUBSET Window, freq \in Freqs :
          call = [pc |-> "called", dates |-> Ascending(S), freq |-> freq,
                  result |-> {}]

CallGetRebalanceDates ==
    /\ call.pc = "called"
    /\ call' = [call EXCEPT !.pc = "returned",
                            !.result = GetRebalanceDates(call.dates, call.freq)]
    /\ UNCHANGED <<sim, twin, diverged, args, run>>

NextSchedule == CallGetRebalanceDates

SpecSchedule == InitSchedule /\ [][NextSchedule]_vars

\* The dates of the input with no later input date in the same period
LatestInPeriod(D, P(_)) == {d \in D : ~\E e \in D : e > d /\ P(e) = P(d)}

\* C11. Rebalance date selection: for "daily" the result is every input
\* date; for "weekly" exactly the dates with no later input date in the
\* same calendar week, one per week present; for "monthly" the same by
\* calendar month; the result is always a subset of the input dates, and an
\* empty input gives an empty result.
C11_RebalanceDates ==
    call.pc = "returned" =>
        LET D == Elements(call.dates)
        IN  /\ call.freq = "daily" => call.result = D
            /\ call.freq = "weekly" =>
                  /\ call.result = LatestInPeriod(D, Week)
                  /\ Cardinality(call.result)
                        = Cardinality({Week(d) : d \in D})
            /\ call.freq = "monthly" =>
                  /\ call.result = LatestInPeriod(D, Month)
                  /\ Cardinality(call.result)
                        = Cardinality({Month(d) : d \in D})
            /\ call.result \subseteq D
            /\ D = {} => call.result = {}

\* A weekly call returned for an index with two dates in one week and a
\* date in the week after
C11_Witness ==
    /\ call.pc = "returned"
    /\ call.freq = "weekly"
    /\ \E d, e, f \in Elements(call.dates) :
          /\ d < e /\ Week(d) = Week(e) /\ Week(f) > Week(e)
          /\ d \notin call.result
          /\ e \in call.result

----------------------------------------------------------------------------
(* Performance metrics: engine.py lines 483-571.  A metric value is a       *)
(* triple: <<"q", n, d>> is the rational n/d in lowest terms, <<"nan", 0,   *)
(* 1>> is NaN, and a value whose first component names a formula is a real  *)
(* number the model does not compute (a root or a power): its second        *)
(* component is 1 when it is known to be positive and 0 otherwise.          *)

RECURSIVE GCD(_, _)
GCD(a, b) == IF b = 0 THEN a ELSE GCD(b, a % b)

\* n/d for d # 0
Rat(n, d) ==
    LET g == GCD(Abs(n), Abs(d))
        sgn == IF d < 0 THEN -1 ELSE 1
    IN  <<"q", sgn * (n \div g), sgn * (d \div g)>>

Zero == Rat(0, 1)

NaNValue == <<"nan", 0, 1>>

\* float('inf'): greater than zero
PosInf == <<"inf", 1, 1>>

PositiveReal(formula) == <<formula, 1, 1>>

Real(formula) == <<formula, 0, 1>>

IsRat(x) == x[1] = "q"

RatAdd(x, y) == Rat(x[2] * y[3] + y[2] * x[3], x[3] * y[3])

\* x / y, following IEEE for NaN operands and for an infinite x over a
\* positive y
RatDiv(x, y) ==
    IF x = NaNValue \/ y = NaNValue THEN NaNValue
    ELSE IF x = PosInf THEN PosInf
    ELSE Rat(x[2] * y[3], x[3] * y[2])

\* abs(x)
RatAbs(x) == IF IsRat(x) THEN Rat(Abs(x[2]), x[3]) ELSE x

RatLess(x, y) == x[2] * y[3] < y[2] * x[3]

\* Variant: x >= 0
GreaterOrEqualZero(x) == x # NaNValue /\ x[2] >= 0

\* x > 0: False for NaN
GreaterThanZero(x) == x # NaNValue /\ x[2] > 0

\* x < 0: False for NaN
LessThanZero(x) == x # NaNValue /\ x[2] < 0

RECURSIVE RatSum(_)
RatSum(seq) == IF seq = <<>> THEN Zero ELSE RatAdd(Head(seq), RatSum(Tail(seq)))

\* Series.mean(): NaN for an empty series, inf with an inf entry
Mean(seq) ==
    IF seq = <<>> THEN NaNValue
    ELSE IF \E i \in 1..Len(seq) : seq[i] = PosInf THEN PosInf
    ELSE RatDiv(RatSum(seq), Rat(Len(seq), 1))

\* Series.std() (ddof = 1): NaN for one entry or with an inf entry, 0 when
\* all entries are equal, a positive real otherwise
Std(seq) ==
    IF Len(seq) <= 1 THEN NaNValue
    ELSE IF \E i \in 1..Len(seq) : seq[i] = PosInf THEN NaNValue
    ELSE IF \A i \in 1..Len(seq) : seq[i] = seq[1] THEN Zero
    ELSE PositiveReal("std")

\* x * np.sqrt(252)
Annualised(x, formula) == IF IsRat(x) \/ x = NaNValue THEN x ELSE PositiveReal(formula)

\* values[i + 1] / values[i] - 1 for values that are not negative: inf
\* after a zero value, NaN between two zero values
Change(previous, value) ==
    IF previous # 0 THEN Rat(value - previous, previous)
    ELSE IF value = 0 THEN NaNValue
    ELSE PosInf

NotNaN(x) == x # NaNValue

\* portfolio_value.pct_change().dropna() of a series of values that are
\* not negative
PctChange(values) ==
    SelectSeq([i \in 1..(IF values = <<>> THEN 0 ELSE Len(values) - 1) |->
                  Change(values[i], values[i + 1])],
              NotNaN)

\* portfolio_value.cummax() at position i
CumMax(values, i) ==
    CHOOSE m \in {values[j] : j \in 1..i} : \A j \in 1..i : values[j] <= m

\* Variant: all dates are one group
DdGroupsSingle(is_dd) == [i \in 1..Len(is_dd) |-> 1]

RECURSIVE CountChanges(_, _)
\* (is_dd != is_dd.shift()).cumsum() at position i: the first entry differs
\* from the NaN shifted in before it
CountChanges(is_dd, i) ==
    IF i = 1 THEN 1
    ELSE CountChanges(is_dd, i - 1) + (IF is_dd[i] # is_dd[i - 1] THEN 1 ELSE 0)

\* dd_groups
DdGroups(is_dd) == [i \in 1..Len(is_dd) |-> CountChanges(is_dd, i)]

\* is_dd.groupby(dd_groups).sum().max() for a non-empty series
MaxDrawdownDays(values) ==
    LET is_dd == [i \in 1..Len(values) |-> values[i] < CumMax(values, i)]
        dd_groups == DdGroups(is_dd)
        dd_lengths == [g \in {dd_groups[i] : i \in 1..Len(values)} |->
                          Cardinality({i \in 1..Len(values) :
                                          dd_groups[i] = g /\ is_dd[i]})]
    IN  CHOOSE m \in {dd_lengths[g] : g \in DOMAIN dd_lengths} :
           \A g \in DOMAIN dd_lengths : dd_lengths[g] <= m

\* drawdown.min() for a series whose running maximum is positive
MaxDrawdown(values) ==
    LET drawdown == [i \in 1..Len(values) |->
                        Rat(values[i] - CumMax(values, i), CumMax(values, i))]
    IN  CHOOSE m \in {drawdown[i] : i \in 1..Len(values)} :
           \A i \in 1..Len(values) : ~RatLess(drawdown[i], m)

RECURSIVE WeightChanges(_)
\* weights.diff().abs().sum(axis=1).sum(), in units of 1/WeightDen: the
\* first row's differences and those with a NaN cell are NaN and skipped
WeightChanges(weights) ==
    IF Len(weights) <= 1 THEN 0
    ELSE LET n == Len(weights)
             change == [t \in Tickers |->
                          IF IsNaN(weights[n][t]) \/ IsNaN(weights[n - 1][t])
                          THEN 0
                          ELSE Abs(Val(weights[n][t]) - Val(weights[n - 1][t]))]
         IN  WeightChanges(SubSeq(weights, 1, n - 1)) + SumSeq(change, TickerSeq)

RECURSIVE PositionCount(_)
\* (weights > 0).sum(axis=1).sum()
PositionCount(weights) ==
    IF weights = <<>> THEN 0
    ELSE LET held == [t \in Tickers |->
                        IF ~IsNaN(Head(weights)[t]) /\ Val(Head(weights)[t]) > 0
                        THEN 1 ELSE 0]
         IN  SumSeq(held, TickerSeq) + PositionCount(Tail(weights))

\* _empty_metrics()
EmptyMetrics ==
    [final_value |-> Zero, total_return |-> Zero, annual_return |-> Zero,
     annual_volatility |-> Zero, sharpe_ratio |-> Zero,
     sortino_ratio |-> Zero, calmar_ratio |-> Zero, max_drawdown |-> Zero,
     max_drawdown_days |-> Zero, win_rate |-> Zero,
     profit_loss_ratio |-> Zero, total_trades |-> Zero,
     annual_turnover |-> Zero, avg_positions |-> Zero]

\* An exception leaves the call
Raised(exception) == [raised |-> exception]

\* Variant: a zero initial_capital is not taken for degenerate
DegenerateNegativeOnly(portfolio_value, capital) ==
    Len(portfolio_value) = 0 \/ capital < 0

\* len(portfolio_value) == 0 or initial_capital <= 0
Degenerate(portfolio_value, capital) ==
    Len(portfolio_value) = 0 \/ capital <= 0

\* Variant: the ratio of the final value to the initial capital
TotalReturnAsRatio(final_value, capital) == Rat(final_value, capital)

\* final_value / initial_capital - 1
TotalReturn(final_value, capital) == Rat(final_value - capital, capital)

\* Lines 510-571, for a non-empty series of values that are not negative
\* and whose running maximum is positive, and a non-zero initial_capital
Metrics(portfolio_value, portfolio_returns, capital, weights, trades) ==
    LET final_value == Last(portfolio_value)
        total_return == TotalReturn(final_value, capital)
        n_days == Len(portfolio_value)
        annual_return ==
            IF total_return = Zero THEN Zero
            ELSE Real("(1+total_return)**(252/n_days)-1")
        daily_std ==
            IF Len(portfolio_returns) = 0 THEN Zero ELSE Std(portfolio_returns)
        annual_volatility == Annualised(daily_std, "daily_std*sqrt(252)")
        sharpe_ratio ==
            IF GreaterThanZero(annual_volatility)
            THEN Real("excess_return/annual_volatility") ELSE Zero
        downside_returns == SelectSeq(portfolio_returns, LessThanZero)
        downside_std ==
            IF Len(downside_returns) > 0
            THEN Annualised(Std(downside_returns), "downside_std")
            ELSE Zero
        sortino_ratio ==
            IF GreaterThanZero(downside_std)
            THEN Real("excess_return/downside_std") ELSE Zero
        max_drawdown == MaxDrawdown(portfolio_value)
        max_drawdown_days == MaxDrawdownDays(portfolio_value)
        calmar_ratio ==
            IF LessThanZero(max_drawdown)
            THEN IF IsRat(annual_return)
                 THEN RatDiv(annual_return, RatAbs(max_drawdown))
                 ELSE Real("annual_return/abs(max_drawdown)")
            ELSE Zero
        total_days == Len(portfolio_returns)
        wins == SelectSeq(portfolio_returns, GreaterThanZero)
        winning_days == Len(wins)
        win_rate ==
            IF total_days > 0 THEN Rat(winning_days, total_days) ELSE Zero
        avg_win == IF winning_days > 0 THEN Mean(wins) ELSE Zero
        losing_days == total_days - winning_days
        avg_loss ==
            IF losing_days > 0
            THEN RatAbs(Mean(SelectSeq(portfolio_returns, LessThanZero)))
            ELSE Rat(1, 1)
        profit_loss_ratio ==
            IF GreaterThanZero(avg_loss) THEN RatDiv(avg_win, avg_loss)
            ELSE Zero
    IN  [final_value |-> Rat(final_value, 1),
         total_return |-> total_return,
         annual_return |-> annual_return,
         annual_volatility |-> annual_volatility,
         sharpe_ratio |-> sharpe_ratio,
         sortino_ratio |-> sortino_ratio,
         calmar_ratio |-> calmar_ratio,
         max_drawdown |-> max_drawdown,
         max_drawdown_days |-> Rat(max_drawdown_days, 1),
         win_rate |-> win_rate,
         profit_loss_ratio |-> profit_loss_ratio,
         total_trades |-> Rat(Len(trades), 1),
         annual_turnover |->
             Rat(WeightChanges(weights) * 252, WeightDen * n_days),
         avg_positions |->
             IF weights = <<>> THEN NaNValue
             ELSE Rat(PositionCount(weights), Len(weights))]

\* Line 515: (1.0 + total_return) ** (1.0 / n_years) is a power of Python
\* floats, which raises OverflowError when the result is beyond the largest
\* float.  The ratio final_value / initial_capital from which that happens
\* is 16.719 for one date, 279.554 for two and 4674.110 for three (to three
\* decimals, in thousandths here); for longer series it is beyond every
\* value drawn.
AnnualisationOverflows(final_value, capital, n_days) ==
    /\ n_days <= 3
    /\ (final_value * 1000) \div capital > <<16719, 279554, 4674110>>[n_days]

\* _calculate_metrics: portfolio_value.iloc[-1] of an empty series, a
\* division of a float by a zero initial_capital and an overflowing power
\* raise
CalculateMetrics(portfolio_value, portfolio_returns, capital, weights, trades) ==
    IF Degenerate(portfolio_value, capital) THEN EmptyMetrics
    ELSE IF portfolio_value = <<>> THEN Raised("IndexError")
    ELSE IF capital = 0 THEN Raised("ZeroDivisionError")
    ELSE IF AnnualisationOverflows(Last(portfolio_value), capital,
                                   Len(portfolio_value))
         THEN Raised("OverflowError")
    ELSE Metrics(portfolio_value, portfolio_returns, capital, weights, trades)

----------------------------------------------------------------------------
(* Calls of _calculate_metrics *)

\* The longest value series drawn
MaxSeriesLen == 4

SeqsUpTo(S, n) == UNION {[1..k -> S] : k \in 0..n}

\* Spec 8, scenario 4
Scenario4Values == <<100, 90, 80, 95, 110>>

\* A one-date series worth seventeen times an initial_capital of 1
SteepValues == <<17>>

\* Value series with the returns Backtester.run derives from them (line 344)
DerivedSeries ==
    {<<v, PctChange(v)>> :
        v \in SeqsUpTo(1..3, MaxSeriesLen) \cup {Scenario4Values, SteepValues}}

\* Daily returns of -1%, 0, 1% and 2%
ReturnCells == {Rat(-1, 100), Zero, Rat(1, 100), Rat(2, 100)}

\* Returns series given on their own
FreeSeries ==
    {<<v, r>> : v \in {<<>>, <<2, 1, 2>>},
                r \in SeqsUpTo(ReturnCells, MaxSeriesLen - 1)}

Capitals == {-1, 0, 1, 2}

WeightMatrices ==
    {<<>>,
     <<Row(Num(Full), Num(0)), Row(Num(Half), Num(Half))>>,
     <<NaNRow, Row(Num(Full), NaN)>>}

TradeLists == {<<>>, <<"trade">>}

InitMetrics ==
    /\ NoSimulation
    /\ tickers = <<"A", "B">>
    /\ run = Idle
    /\ \E series \in DerivedSeries \cup FreeSeries, capital \in Capitals,
          weights \in WeightMatrices, trades \in TradeLists :
          call = [pc |-> "called",
                  portfolio_value |-> series[1],
                  portfolio_returns |-> series[2],
                  initial_capital |-> capital,
                  weights |-> weights,
                  trades |-> trades,
                  result |-> <<>>]

CallCalculateMetrics ==
    /\ call.pc = "called"
    /\ call' = [call EXCEPT
                  !.pc = "returned",
                  !.result = CalculateMetrics(call.portfolio_value,
                                 call.portfolio_returns, call.initial_capital,
                                 call.weights, call.trades)]
    /\ UNCHANGED <<sim, twin, diverged, args, run>>

NextMetrics == CallCalculateMetrics

SpecMetrics == InitMetrics /\ [][NextMetrics]_vars

MetricNames ==
    {"final_value", "total_return", "annual_return", "annual_volatility",
     "sharpe_ratio", "sortino_ratio", "calmar_ratio", "max_drawdown",
     "max_drawdown_days", "win_rate", "profit_loss_ratio", "total_trades",
     "annual_turnover", "avg_positions"}

\* C15. Degenerate metric inputs: called with an empty value series or with
\* initial_capital <= 0, _calculate_metrics returns the record in which all
\* fourteen metrics are 0 and raises nothing, whatever the returns, weights
\* and trades are.
C15_DegenerateInputs ==
    (/\ call.pc = "returned"
     /\ (call.portfolio_value = <<>> \/ call.initial_capital <= 0))
    => /\ DOMAIN call.result = MetricNames
       /\ Cardinality(DOMAIN call.result) = 14
       /\ \A name \in MetricNames : call.result[name] = <<"q", 0, 1>>

\* A call with initial_capital = 0 and non-empty values, returns, weights
\* and trades has returned
C15_Witness ==
    /\ call.pc = "returned"
    /\ call.initial_capital = 0
    /\ call.portfolio_value # <<>>
    /\ call.portfolio_returns # <<>>
    /\ call.weights # <<>>
    /\ call.trades # <<>>
    /\ call.result.final_value = <<"q", 0, 1>>

\* The call was given a value series of length >= 2 with all entries equal
\* and the all-zero returns that go with it
ConstantSeries ==
    /\ Len(call.portfolio_value) >= 2
    /\ \A i \in 1..Len(call.portfolio_value) :
          call.portfolio_value[i] = call.portfolio_value[1]
    /\ Len(call.portfolio_returns) = Len(call.portfolio_value) - 1
    /\ \A i \in 1..Len(call.portfolio_returns) :
          call.portfolio_returns[i] = <<"q", 0, 1>>

BelowPeak(i) ==
    \E j \in 1..i : call.portfolio_value[j] > call.portfolio_value[i]

\* The length of the longest run of consecutive dates below the running
\* maximum
LongestRunBelowPeak ==
    LET n == Len(call.portfolio_value)
        IsRun(a, len) == a + len - 1 <= n /\ \A i \in a..(a + len - 1) : BelowPeak(i)
        lens == {len \in 0..n : \E a \in 1..(n + 1) : IsRun(a, len)}
    IN  CHOOSE len \in lens : \A other \in lens : other <= len

C18_ProfitLossRatio ==
    (/\ call.pc = "returned"
     /\ call.portfolio_value # <<>>
     /\ call.initial_capital > 0
     /\ "profit_loss_ratio" \in DOMAIN call.result)
    => LET positive == SelectSeq(call.portfolio_returns, LAMBDA r : r[2] > 0)
           negative == SelectSeq(call.portfolio_returns, LAMBDA r : r[2] < 0)
           mean_positive == IF positive = <<>> THEN Zero ELSE Mean(positive)
       IN  call.result.profit_loss_ratio =
              IF negative = <<>> THEN mean_positive
              ELSE RatDiv(mean_positive, RatAbs(Mean(negative)))

----------------------------------------------------------------------------
(* Backtester.run: engine.py lines 284-370 *)

Max(a, b) == IF a >= b THEN a ELSE b

\* The value an empty DatetimeIndex gives for min(): NaT, which is no day
NaT == -1

\* Index.min() and Index.max()
IndexMin(index) == IF index = <<>> THEN NaT ELSE index[1]

IndexMax(index) == IF index = <<>> THEN NaT ELSE index[Len(index)]

\* _norm_date(d, default_ts): a date is kept to the day, which is what
\* strftime('%Y-%m-%d') leaves of it; the strings compare as the days do
NormDate(d, default_ts) == IF d = None THEN default_ts ELSE Val(d)

\* Variant: a range with start after end is kept
KeepInverted(start_date, end_date, data_start, data_end) ==
    <<start_date, end_date>>

\* if start_date > end_date: both become the bounds of the data
ResetInverted(start_date, end_date, data_start, data_end) ==
    IF start_date > end_date THEN <<data_start, data_end>>
    ELSE <<start_date, end_date>>

\* Lines 294-303
ResolveRange(start_arg, end_arg, close_index) ==
    LET data_start == IndexMin(close_index)
        data_end == IndexMax(close_index)
        start_date == Max(NormDate(start_arg, data_start), data_start)
        end_date == Min(NormDate(end_arg, data_end), data_end)
    IN  ResetInverted(start_date, end_date, data_start, data_end)

\* index[(index >= start_date) & (index <= end_date)]
InRange(index, start_date, end_date) ==
    SelectSeq(index, LAMBDA d : d >= start_date /\ d <= end_date)

\* Variant: the left index is kept whole
IntersectionLeft(left, right) == left

\* left.intersection(right), in the order of left
Intersection(left, right) ==
    SelectSeq(left, LAMBDA x : x \in Elements(right))

\* Variant: the first date is not added
WithoutFirstDate(schedule, first_date) == schedule

\* rebalance_dates | {first_date}
WithFirstDate(schedule, first_date) == schedule \cup {first_date}

\* The price matrix of the database and the weights of the strategy, cell
\* by cell: A's price alternates between 1 and 2, B's is 1; the strategy
\* holds A alone on even days, A and B in halves on odd days
ClosePrice(d, t) == IF t = "A" THEN 1 + (d % 2) ELSE 1

StrategyWeight(d, t) ==
    IF d % 2 = 0 THEN (IF t = "A" THEN Full ELSE 0) ELSE Half

\* close.loc[date] and weights.loc[date] of the aligned matrices
CloseRow(d) == [t \in Tickers |-> Num(ClosePrice(d, t))]

WeightRow(d) == [t \in Tickers |-> Num(StrategyWeight(d, t))]

\* The trading days the inputs are drawn from: Wednesday 2024-01-31,
\* Thursday and Friday after it, and Monday 2024-02-05
RunDays == {30, 31, 32, 35}

CloseIndexes == {<<30, 31, 32, 35>>, <<31, 32, 35>>, <<30, 31>>}

CloseColumns == {<<"A", "B">>, <<"A">>}

StartArgs == {None, Some(29), Some(31), Some(36)}

EndArgs == {None, Some(29), Some(32), Some(36)}

RunFreqs == {"daily", "weekly", "monthly"}

\* What a strategy may return: any dates, any of these column lists
StrategyIndexes == {Ascending(S) : S \in SUBSET RunDays}

StrategyColumns == {<<"A", "B">>, <<"B">>, <<"C">>}

\* The strategies given to run.  config is what the strategy holds under
\* config['equal_weight'] when it is constructed: no config attribute at
\* all (None), a config without the key, or a config with the key; raises
\* tells whether its run method raises.
Strategies ==
    [config : {None, Some("no key"), Some("True"), Some("False")},
     raises : BOOLEAN]

AllocationModes == {"equal_weight", "score_weight", "manual"}

\* A Strategy with its default configuration
DefaultStrategy == [config |-> Some("True"), raises |-> FALSE]

InitRunOver(close_indexes, start_args, end_args, freqs, strategies, modes) ==
    /\ initial_capital = 5 * Scale
    /\ transaction_cost = 0
    /\ tax = 0
    /\ slippage = 0
    /\ allow_fractional = TRUE
    /\ rebalance_dates = {}
    /\ dates = <<>>
    /\ tickers = <<>>
    /\ sim = Idle
    /\ twin = Idle
    /\ diverged = FALSE
    /\ call = Idle
    /\ \E close_index \in close_indexes, close_columns \in CloseColumns,
          start_arg \in start_args, end_arg \in end_args, freq \in freqs,
          strategy \in strategies, mode \in modes :
          run = [pc |-> "entry",
                 strategy |-> strategy,
                 constructed_config |-> strategy.config,
                 allocation_mode |-> mode,
                 strategy_calls |-> 0,
                 config_at_call |-> None,
                 exception |-> None,
                 close_index |-> close_index,
                 close_columns |-> close_columns,
                 start_arg |-> start_arg,
                 end_arg |-> end_arg,
                 rebalance_freq |-> freq,
                 start_date |-> NaT,
                 end_date |-> NaT,
                 weights_index |-> <<>>,
                 weights_columns |-> <<>>,
                 aligned_close_index |-> <<>>,
                 aligned_close_columns |-> <<>>,
                 rebalance_set |-> {},
                 result |-> <<>>]

InitRun ==
    InitRunOver(CloseIndexes, StartArgs, EndArgs, RunFreqs,
                {DefaultStrategy}, {"equal_weight"})

\* Lines 294-303: the date range is resolved
ResolveDates ==
    /\ run.pc = "entry"
    /\ LET range == ResolveRange(run.start_arg, run.end_arg, run.close_index)
       IN  run' = [run EXCEPT !.pc = "resolved",
                              !.start_date = range[1],
                              !.end_date = range[2]]
    /\ UNCHANGED <<sim, twin, diverged, args, call>>

\* Variant: only equal_weight overrides the strategy's setting
AllocationOverridesEqualOnly(mode) == mode = "equal_weight"

\* allocation_mode in ("equal_weight", "score_weight")
AllocationOverrides(mode) == mode \in {"equal_weight", "score_weight"}

\* Lines 306-307: hasattr(strategy, 'config') and the mode is one of the
\* two: strategy.config["equal_weight"] = allocation_mode == "equal_weight"
Configure ==
    /\ run.pc = "resolved"
    /\ run' = [run EXCEPT
                  !.pc = "configured",
                  !.strategy.config =
                      IF @ # None /\ AllocationOverrides(run.allocation_mode)
                      THEN Some(IF run.allocation_mode = "equal_weight"
                                THEN "True" ELSE "False")
                      ELSE @]
    /\ UNCHANGED <<sim, twin, diverged, args, call>>

\* Variant: a failure of the strategy is taken for an empty weight matrix
StrategyFailureAbsorbed(r) ==
    [r EXCEPT !.pc = "weights", !.weights_index = <<>>,
              !.weights_columns = <<>>]

\* strategy.run raises: nothing in run catches it, the exception leaves run
StrategyFailure(r) ==
    [r EXCEPT !.pc = "raised", !.exception = Some("strategy.run")]

\* Line 310: weights = strategy.run(db, start_date, end_date)
RunStrategy(index, columns) ==
    /\ run.pc = "configured"
    /\ LET called == [run EXCEPT !.strategy_calls = @ + 1,
                                 !.config_at_call = Some(run.strategy.config)]
       IN  run' = IF run.strategy.raises THEN StrategyFailure(called)
                  ELSE [called EXCEPT !.pc = "weights",
                                      !.weights_index = index,
                                      !.weights_columns = columns]
    /\ UNCHANGED <<sim, twin, diverged, args, call>>

\* Lines 312-320: both matrices are cut to the range and to their common
\* dates and columns.  dates and tickers are the index and the columns of
\* the weights from here on.
Align ==
    /\ run.pc = "weights"
    /\ LET close_index == InRange(run.close_index, run.start_date, run.end_date)
           weights_index == InRange(run.weights_index, run.start_date, run.end_date)
           common_dates == Intersection(close_index, weights_index)
           common_cols == Intersection(run.close_columns, run.weights_columns)
       IN  /\ run' = [run EXCEPT
                        !.pc = "aligned",
                        !.aligned_close_index =
                            Intersection(close_index, common_dates),
                        !.aligned_close_columns =
                            Intersection(run.close_columns, common_cols)]
           /\ dates' = Intersection(weights_index, common_dates)
           /\ tickers' = Intersection(run.weights_columns, common_cols)
    /\ UNCHANGED <<sim, twin, diverged, call, initial_capital,
                   transaction_cost, tax, slippage, allow_fractional,
                   rebalance_dates>>

\* Lines 322-329: the schedule, with the first date added.  The weekly and
\* monthly schedules hold numpy values (.values); whether the simulator's
\* test `date in rebalance_dates` finds a Timestamp among them depends on
\* how the numpy build hashes them (found).  The first date is added as a
\* Timestamp and is always found.  rebalance_dates gets the positions in
\* the index of the dates the simulator will find.
Schedule(found) ==
    /\ run.pc = "aligned"
    /\ found \/ run.rebalance_freq \in {"weekly", "monthly"}
    /\ LET schedule == GetRebalanceDates(dates, run.rebalance_freq)
           first_date == IndexMin(dates)
       IN  /\ run' = [run EXCEPT
                        !.pc = "scheduled",
                        !.rebalance_set = WithFirstDate(schedule, first_date)]
           /\ rebalance_dates' =
                 {i \in 1..Len(dates) :
                     \/ dates[i] \in WithFirstDate({}, first_date)
                     \/ found /\ dates[i] \in schedule}
    /\ UNCHANGED <<sim, twin, diverged, call, initial_capital,
                   transaction_cost, tax, slippage, allow_fractional,
                   dates, tickers>>

\* Line 332: _simulate is entered
StartSimulate ==
    /\ run.pc = "scheduled"
    /\ run' = [run EXCEPT !.pc = "simulating"]
    /\ sim' = InitialState
    /\ UNCHANGED <<twin, diverged, args, call>>

\* The loop head of _simulate on the rows of the aligned matrices
RunBeginDate ==
    /\ run.pc = "simulating"
    /\ BeginDate(CloseRow(dates[sim.date]), WeightRow(dates[sim.date]))

\* Lines 343-370: returns, metrics and the result
Finish ==
    /\ run.pc = "simulating"
    /\ sim.pc = "done"
    /\ LET portfolio_returns == PctChange(sim.portfolio_values)
           weights == [i \in 1..Len(dates) |-> WeightRow(dates[i])]
       IN  run' = [run EXCEPT
                     !.pc = "returned",
                     !.result =
                        [start_date |-> run.start_date,
                         end_date |-> run.end_date,
                         portfolio_value |-> sim.portfolio_values,
                         daily_returns |-> portfolio_returns,
                         positions |-> sim.positions_list,
                         trades |-> sim.trades,
                         metrics |-> CalculateMetrics(sim.portfolio_values,
                                        portfolio_returns, initial_capital,
                                        weights, sim.trades)]]
    /\ UNCHANGED <<sim, twin, diverged, args, call>>

NextRun ==
    \/ ResolveDates
    \/ Configure
    \/ \E index \in StrategyIndexes, columns \in StrategyColumns :
          RunStrategy(index, columns)
    \/ Align
    \/ \E found \in BOOLEAN : Schedule(found)
    \/ StartSimulate
    \/ RunBeginDate
    \/ SellOne
    \/ BuyOne
    \/ ClearPending
    \/ EndDate
    \/ Return
    \/ Finish

SpecRun == InitRun /\ [][NextRun]_vars

\* Runs with every strategy and allocation mode, on one price matrix and
\* the default date range
InitStrategies ==
    InitRunOver({<<30, 31, 32, 35>>}, {None}, {None}, {"daily", "weekly"},
                Strategies, AllocationModes)

SpecStrategies == InitStrategies /\ [][NextRun]_vars

----------------------------------------------------------------------------
(* Properties of Backtester.run *)

\* The schedule has been handed to the simulator
Scheduled == run.pc \in {"scheduled", "simulating", "returned"}

Earliest(index) ==
    CHOOSE d \in Elements(index) : \A e \in Elements(index) : d <= e

\* C12. First date always a rebalance date: for every frequency and every
\* non-empty aligned date range, the rebalance set handed to the simulator
\* contains the earliest aligned date, so a signal is captured on the first
\* date and, with two or more dates, an execution step takes place on the
\* second date.
C12_FirstDateRebalance ==
    (Scheduled /\ dates # <<>>)
    => /\ Earliest(dates) \in run.rebalance_set
       /\ \E i \in rebalance_dates : dates[i] = Earliest(dates)
       /\ (run.pc # "scheduled" /\ sim.date >= 2)
             => /\ sim.captured # <<>>
                /\ dates[sim.captured[1].date] = Earliest(dates)
       /\ (/\ run.pc # "scheduled"
           /\ sim.date >= 3 \/ (sim.date = 2 /\ sim.pc = "capture"))
             => /\ sim.executed # <<>>
                /\ sim.executed[1].date = 2

\* A weekly run has returned whose first two dates lie in the same week,
\* so that the weekly rule does not select the first; the first order was
\* executed on the second date
C12_Witness ==
    /\ run.pc = "returned"
    /\ run.rebalance_freq = "weekly"
    /\ Len(dates) >= 2
    /\ Week(dates[1]) = Week(dates[2])
    /\ sim.executed # <<>>
    /\ sim.executed[1].date = 2
    /\ sim.trades # <<>>

\* The earliest and latest dates of the price data
DataStart == Earliest(run.close_index)

DataEnd ==
    CHOOSE d \in Elements(run.close_index) :
       \A e \in Elements(run.close_index) : e <= d

\* The caller's bounds, defaulted and clamped to the data
ClampedStart ==
    IF run.start_arg = <<>> THEN DataStart
    ELSE IF run.start_arg[1] >= DataStart THEN run.start_arg[1] ELSE DataStart

ClampedEnd ==
    IF run.end_arg = <<>> THEN DataEnd
    ELSE IF run.end_arg[1] <= DataEnd THEN run.end_arg[1] ELSE DataEnd

\* C13 as stated (refuted). An omitted start or end resolves to the data's
\* earliest or latest date, a supplied start is clamped to max(start,
\* data_start) and a supplied end to min(end, data_end), for every pair of
\* bounds, ranges wholly outside the data and ranges with start after end
\* included.
C13_RangeClampedAlways ==
    run.pc # "entry"
    => /\ run.start_date = ClampedStart
       /\ run.end_date = ClampedEnd

\* C13. Date-range resolution: an omitted start or end resolves to the
\* data's earliest or latest date, a supplied start is clamped to
\* max(start, data_start) and a supplied end to min(end, data_end); when
\* the clamped start is after the clamped end (start after end, or a range
\* wholly outside the data) both are replaced by the bounds of the data.
C13_RangeResolution ==
    run.pc # "entry"
    => IF ClampedStart <= ClampedEnd
       THEN run.start_date = ClampedStart /\ run.end_date = ClampedEnd
       ELSE run.start_date = DataStart /\ run.end_date = DataEnd

\* A range wholly after the data has been resolved to the whole data range
C13_Witness ==
    /\ run.pc = "resolved"
    /\ run.start_arg # <<>>
    /\ run.start_arg[1] > DataEnd
    /\ run.end_arg # <<>>
    /\ run.start_date = DataStart
    /\ run.end_date = DataEnd

\* C14. Alignment by inner join: the matrices handed to the simulator have
\* the same dates and the same tickers, the intersections of the dates
\* (within the resolved range) and of the tickers of the price matrix and
\* of the strategy's weights; when the two share no date or no ticker the
\* run raises nothing and returns a result over the narrowed universe.
C14_InnerJoin ==
    LET D == {d \in Elements(run.close_index) \cap Elements(run.weights_index) :
                 d >= run.start_date /\ d <= run.end_date}
        T == Elements(run.close_columns) \cap Elements(run.weights_columns)
    IN  /\ run.pc \in {"aligned", "scheduled", "simulating", "returned"}
           => /\ Elements(dates) = D
              /\ Elements(run.aligned_close_index) = D
              /\ Elements(tickers) = T
              /\ Elements(run.aligned_close_columns) = T
        /\ run.pc = "returned"
           => /\ DOMAIN run.result.metrics = MetricNames
              /\ Len(run.result.portfolio_value) = Cardinality(D)
              /\ Len(run.result.positions) = Cardinality(D)
              /\ \A i \in 1..Len(run.result.positions) :
                    DOMAIN run.result.positions[i] = T

\* A run whose inputs share two or more dates but no ticker has returned
C14_Witness ==
    /\ run.pc = "returned"
    /\ Elements(run.close_columns) \cap Elements(run.weights_columns) = {}
    /\ Len(run.result.portfolio_value) >= 2
    /\ run.result.trades = <<>>

----------------------------------------------------------------------------
(* The trade log *)

\* The trade log of a state is well dated: no trade on the first date,
\* every trade on the date after a rebalance date, dates in order
WellDated(trades) ==
    /\ \A i \in 1..Len(trades) :
          /\ trades[i].date >= 2
          /\ (trades[i].date - 1) \in rebalance_dates
    /\ \A i, j \in 1..Len(trades) : i <= j => trades[i].date <= trades[j].date

\* C21. Trade dating: every trade in the log is dated on a date whose
\* immediate predecessor in the index is a rebalance date; no trade is
\* dated on the first date; the log only grows by appending (the log
\* before a step is a prefix of the log after it) and its trade dates are
\* non-decreasing.
C21_TradeLog ==
    [][/\ Len(sim'.trades) >= Len(sim.trades)
       /\ SubSeq(sim'.trades, 1, Len(sim.trades)) = sim.trades
       /\ WellDated(sim'.trades)
    ]_vars

\* Trades of two different dates are in the log
C21_Witness ==
    \E i, j \in 1..Len(sim.trades) :
       /\ i < j
       /\ sim.trades[i].date < sim.trades[j].date
       /\ sim.trades[i].date - 1 \in rebalance_dates
       /\ sim.pc = "done"

----------------------------------------------------------------------------
(* Runs over an index of any length, the empty one included.  The loop of   *)
(* _simulate is sequential code: a step that can be taken is taken.         *)

TerminationPriceRows ==
    {Row(Num(1), Num(1)), Row(Num(2), Num(1)), Row(NaN, Num(1))}

InitAnyLength ==
    /\ tickers = <<"A", "B">>
    /\ \E n \in 0..NumDates : dates = [i \in 1..n |-> i]
    /\ initial_capital = 5 * Scale
    /\ allow_fractional = TRUE
    /\ transaction_cost \in Rates
    /\ tax = 0
    /\ slippage = 0
    /\ rebalance_dates \in SUBSET Dates
    /\ InitRuns

NextAnyLength ==
    \/ \E prow \in TerminationPriceRows, wrow \in RowsRead(TargetRows) :
          BeginDate(prow, wrow)
    \/ SellOne
    \/ BuyOne
    \/ ClearPending
    \/ EndDate
    \/ Return

SpecAnyLength ==
    InitAnyLength /\ [][NextAnyLength]_vars /\ WF_vars(NextAnyLength)

\* C22. Termination: _simulate terminates for every finite input after
\* processing each date of the index exactly once in index order, and
\* returns a value series and a holdings table with exactly one entry per
\* input date, in the order of the dates (no entry for an empty index).
C22_Terminates ==
    /\ [](/\ sim.date \in 1..(Len(dates) + 1)
          /\ Len(sim.portfolio_values) = sim.date - 1
          /\ Len(sim.positions_list) = sim.date - 1)
    /\ [][sim'.date \in {sim.date, sim.date + 1}]_vars
    /\ <>(/\ sim.pc = "done"
          /\ Len(sim.portfolio_values) = Len(dates)
          /\ Len(sim.positions_list) = Len(dates))

\* A run over an empty index has returned empty tables
C22_Witness ==
    /\ sim.pc = "done"
    /\ dates = <<>>
    /\ sim.portfolio_values = <<>>
    /\ sim.positions_list = <<>>

----------------------------------------------------------------------------
(* Ratio guards of _calculate_metrics *)

\* A call with a non-empty value series and initial_capital > 0 is over
NonDegenerateCall ==
    /\ call.pc = "returned"
    /\ call.portfolio_value # <<>>
    /\ call.initial_capital > 0

NegativeReturns == SelectSeq(call.portfolio_returns, LAMBDA r : r[2] < 0)

\* The series has two or more entries, not all equal: its standard
\* deviation is a positive number
Spread(seq) == \E i, j \in 1..Len(seq) : seq[i] # seq[j]

\* annual_return / |max_drawdown| of the returned record
CalmarQuotient ==
    LET annual_return == call.result.annual_return
        max_drawdown == call.result.max_drawdown
    IN  IF annual_return[1] = "q"
        THEN RatDiv(annual_return, RatAbs(max_drawdown))
        ELSE <<"annual_return/abs(max_drawdown)", 0, 1>>

LaterStages == {"weights", "aligned", "scheduled", "simulating", "returned"}

\* No stage after the strategy has left a trace
NothingAfterStrategy ==
    /\ run.pc \notin LaterStages
    /\ sim = Idle
    /\ run.rebalance_set = {}
    /\ run.weights_index = <<>> 
    /\ run.result = <<>>

\* C24: when strategy.run raises inside Backtester.run the exception
\* reaches the caller: strategy.run is invoked exactly once, no
\* BacktestResult is produced, neither the scheduler nor the simulator nor
\* the metrics are invoked, and run does nothing more after the raise.
C24_StrategyFailure ==
    /\ [](run.pc # "idle" /\ run.strategy.raises =>
            /\ NothingAfterStrategy
            /\ run.strategy_calls <= 1
            /\ (run.strategy_calls = 1 <=>
                   run.pc = "raised" /\ run.exception = Some("strategy.run")))
    /\ [][run.pc # "raised"]_vars

C24_Witness ==
    /\ run.pc = "raised"
    /\ run.strategy.raises
    /\ run.strategy_calls = 1
    /\ run.exception = Some("strategy.run")
    /\ run.result = <<>>

\* ---------------------------------------------------------------------
\* The allocation mode

\* What run leaves under config['equal_weight'] of a strategy constructed
\* with the given configuration
ConfigAfterRun(constructed, mode) ==
    IF constructed = None THEN None
    ELSE IF mode = "equal_weight" THEN Some("True")
    ELSE IF mode = "score_weight" THEN Some("False")
    ELSE constructed

\* C30: for a strategy with a config and an allocation_mode of
\* equal_weight or score_weight, run sets config['equal_weight'] to
\* (allocation_mode == 'equal_weight') before it invokes strategy.run,
\* whatever the constructed value, and the value stays after run returns
\* or raises; for any other mode, or a strategy without config, the
\* configuration stays as constructed.
C30_AllocationMode ==
    run.pc # "idle" =>
        LET expected == ConfigAfterRun(run.constructed_config,
                                       run.allocation_mode)
        IN  /\ run.pc \in {"entry", "resolved"} =>
                   /\ run.strategy.config = run.constructed_config
                   /\ run.strategy_calls = 0
            /\ run.pc \notin {"entry", "resolved"} =>
                   run.strategy.config = expected
            /\ run.strategy_calls > 0 =>
                   run.config_at_call = Some(expected)

C30_Witness ==
    /\ run.pc = "returned"
    /\ run.constructed_config = Some("True")
    /\ run.allocation_mode = "score_weight"
    /\ run.strategy.config = Some("False")
    /\ run.config_at_call = Some(Some("False"))
\* ---------------------------------------------------------------------
\* Orders that are filled completely

\* The execution step of the current date has just finished
ExecutionStepDone ==
    /\ sim.pc = "capture"
    /\ sim.executed # <<>>
    /\ Last(sim.executed).date = sim.date

ZeroRates == transaction_cost = 0 /\ tax = 0 /\ slippage = 0

\* The order is a row of non-negative weights that sum to 1 at most
LongOnlyOrder(w) ==
    /\ \A t \in Tickers : w[t] >= 0
    /\ SumSeq(w, TickerSeq) <= WeightDen

ValidlyPriced(t) == sim.price[t] # NaN /\ sim.price[t][1] > 0

PositiveTargetsPriced ==
    \A t \in Tickers : sim.target_shares[t] > 0 => ValidlyPriced(t)

TargetsHeld ==
    \A t \in Tickers : ValidlyPriced(t) => sim.holdings[t] = sim.target_shares[t]

\* C25 as stated: with zero rates, a non-negative weight row summing to 1
\* at most and valid positive prices for every ticker with a positive
\* target, after the execution step every validly priced ticker holds its
\* target_shares.
C25_TargetsReachedAsStated ==
    ExecutionStepDone /\ ZeroRates /\ LongOnlyOrder(Last(sim.executed).w)
        /\ PositiveTargetsPriced
    => TargetsHeld

\* C25: the same, for an order sized on a total value that is not negative
\* (a held ticker quoted at a negative price can make the total value, and
\* with it the target of a validly priced ticker, negative: no holding can
\* follow such a target)
C25_TargetsReached ==
    ExecutionStepDone /\ ZeroRates /\ LongOnlyOrder(Last(sim.executed).w)
        /\ PositiveTargetsPriced /\ sim.total_value >= 0
    => TargetsHeld

\* A sale has freed the cash that a purchase of the same step needed
C25_Witness ==
    /\ ExecutionStepDone /\ ZeroRates /\ LongOnlyOrder(Last(sim.executed).w)
    /\ PositiveTargetsPriced /\ sim.total_value >= 0
    /\ TargetsHeld
    /\ \E i, j \in 1..Len(sim.trades) :
          /\ i < j
          /\ sim.trades[i].date = sim.date /\ sim.trades[i].action = "SELL"
          /\ sim.trades[j].date = sim.date /\ sim.trades[j].action = "BUY"
          /\ sim.cash + sim.trades[j].value - sim.trades[i].value
                 < sim.trades[j].value
\* ---------------------------------------------------------------------
\* What an execution step costs

\* shares x price x slippage of a trade, in money units
SlippageAmount(trade) == Abs(trade.shares) * trade.price * slippage * RateDen

\* The cost fields and the slippage amounts of the trades made on a date
RECURSIVE Frictions(_, _)
Frictions(trades, date) ==
    IF trades = <<>> THEN 0
    ELSE (IF Head(trades).date = date
          THEN Head(trades).cost + SlippageAmount(Head(trades))
          ELSE 0)
         + Frictions(Tail(trades), date)

\* An execution step is under way or has just finished
InExecutionStep == sim.pc = "exec" \/ ExecutionStepDone

\* C26: an execution step never creates value: cash plus the holdings at
\* the date's prices is, during and after the step, at most what it was
\* when the order was sized, and the difference is the sum of the cost
\* fields of the date's trades plus their slippage amounts.
C26_NoValueCreated ==
    InExecutionStep =>
        LET now == TotalValue(sim.cash, sim.holdings, sim.price)
        IN  /\ now <= sim.total_value
            /\ sim.total_value - now = Frictions(sim.trades, sim.date)

\* A step with a sale and a purchase that cost fees, tax and slippage
C26_Witness ==
    /\ ExecutionStepDone
    /\ transaction_cost > 0 /\ tax > 0 /\ slippage > 0
    /\ \E i, j \in 1..Len(sim.trades) :
          /\ sim.trades[i].date = sim.date /\ sim.trades[i].action = "SELL"
          /\ sim.trades[j].date = sim.date /\ sim.trades[j].action = "BUY"
    /\ TotalValue(sim.cash, sim.holdings, sim.price) < sim.total_value
\* ---------------------------------------------------------------------
\* Dates without a pending order

\* The date starts with no order pending
NoOrderAtStart(d) == d = 1 \/ (d - 1) \notin rebalance_dates

\* The holdings at the end of the date before d (none before the first)
HoldingsBefore(d) == IF d = 1 THEN ZeroRow ELSE sim.positions_list[d - 1]

\* The account is the same in the next state
AccountUnchanged ==
    /\ sim'.cash = sim.cash
    /\ sim'.holdings = sim.holdings
    /\ sim'.trades = sim.trades

\* C27: a date starts without a pending order exactly when it is the first
\* date or the date before it is not a rebalance date; on such a date no
\* step changes the cash, the holdings or the trade log, so the holdings
\* recorded for it are those of the date before and no trade bears its
\* date: a buy that was skipped is not tried again before the date after
\* the next rebalance date.
C27_IdleDate ==
    /\ [](sim.pc = "loop" /\ sim.date <= Len(dates) =>
             (sim.pending_weights = None <=> NoOrderAtStart(sim.date)))
    /\ [][sim.pc \in {"loop", "capture"} /\ NoOrderAtStart(sim.date)
             => AccountUnchanged]_vars
    /\ [](\A d \in 1..Len(sim.positions_list) :
             NoOrderAtStart(d) =>
                 /\ sim.positions_list[d] = HoldingsBefore(d)
                 /\ \A i \in 1..Len(sim.trades) : sim.trades[i].date # d)

\* A purchase was skipped on the second date and not tried again on the
\* third, which follows a date without rebalance
C27_Witness ==
    /\ allow_fractional
    /\ sim.pc = "done"
    /\ Len(sim.positions_list) = 3
    /\ 1 \in rebalance_dates /\ 2 \notin rebalance_dates
    /\ \E t \in Tickers :
          /\ sim.captured[1].w[t] > 0
          /\ sim.positions_list[2][t] = 0
          /\ sim.positions_list[3][t] = 0
    /\ sim.cash > 0
\* ---------------------------------------------------------------------
\* Returns of a simulated series: engine.py lines 332-351

\* Prices of runs in which ticker A doubles or loses its quote
ReturnPriceRows == {Row(a, Num(1)) : a \in {NaN, Num(1), Num(2)}}

\* Weight matrices: all in A throughout, or A and B in turn
ReturnWeights ==
    {[i \in 1..(NumDates + 1) |-> Row(Num(Full), Num(0))],
     [i \in 1..(NumDates + 1) |->
         IF i % 2 = 1 THEN Row(Num(Full), Num(0)) ELSE Row(Num(0), Num(Full))]}

InitReturns ==
    /\ tickers = <<"A", "B">>
    /\ dates = [i \in 1..(NumDates + 1) |-> i]
    /\ initial_capital = 5 * Scale
    /\ allow_fractional = TRUE
    /\ transaction_cost = 0
    /\ tax = 0
    /\ slippage = 0
    /\ rebalance_dates \in SUBSET Dates
    /\ sim = InitialState
    /\ twin = InitialState
    /\ diverged = FALSE
    /\ call = Idle
    /\ \E weights \in ReturnWeights :
          run = [pc |-> "simulating", weights |-> weights, result |-> <<>>]

\* Lines 343-351: the daily returns of the simulated series and its metrics
MeasureReturns ==
    /\ run.pc = "simulating"
    /\ sim.pc = "done"
    /\ LET portfolio_returns == PctChange(sim.portfolio_values)
       IN  run' = [run EXCEPT
                     !.pc = "returned",
                     !.result =
                        [portfolio_value |-> sim.portfolio_values,
                         daily_returns |-> portfolio_returns,
                         metrics |-> CalculateMetrics(sim.portfolio_values,
                                        portfolio_returns, initial_capital,
                                        run.weights, sim.trades)]]
    /\ UNCHANGED <<sim, twin, diverged, args, call>>

NextReturns ==
    \/ \E prow \in ReturnPriceRows : BeginDate(prow, run.weights[sim.date])
    \/ SellOne
    \/ BuyOne
    \/ ClearPending
    \/ EndDate
    \/ Return
    \/ MeasureReturns

SpecReturns == InitReturns /\ [][NextReturns]_vars

\* x * y for factors that are not negative: 0 * inf is NaN
Times(x, y) ==
    IF x = NaNValue \/ y = NaNValue THEN NaNValue
    ELSE IF x = PosInf \/ y = PosInf
         THEN IF x = Zero \/ y = Zero THEN NaNValue ELSE PosInf
    ELSE Rat(x[2] * y[2], x[3] * y[3])

\* 1 + r
Growth(r) == IF IsRat(r) THEN RatAdd(Rat(1, 1), r) ELSE r

\* The product of the growth factors of the returns
RECURSIVE Compounded(_)
Compounded(returns) ==
    IF returns = <<>> THEN Rat(1, 1)
    ELSE Times(Growth(Head(returns)), Compounded(Tail(returns)))

\* The compounded product of the daily returns, less 1
CompoundedReturn(returns) == Growth(RatAdd(Compounded(returns), Rat(-2, 1)))

\* On the first date nothing is executed
FirstDateIdle ==
    sim.portfolio_values # <<>> =>
        /\ sim.portfolio_values[1] = initial_capital
        /\ sim.positions_list[1] = ZeroRow
        /\ \A i \in 1..Len(sim.trades) : sim.trades[i].date # 1

\* No value before the last one is zero
NoValueLost(values) == \A i \in 1..(Len(values) - 1) : values[i] # 0

\* C28 as stated: on the first date no order is executed, the holdings are
\* zero and the first portfolio value is initial_capital, and total_return
\* is the compounded product of the daily returns, less 1.
C28_TotalReturnAsStated ==
    /\ FirstDateIdle
    /\ run.pc = "returned" =>
           run.result.metrics.total_return
               = CompoundedReturn(run.result.daily_returns)

\* C28: the same, the agreement of total_return with the compounded daily
\* returns being for series in which no value before the last is zero
\* (the change after a zero value is infinite or missing)
C28_TotalReturn ==
    /\ FirstDateIdle
    /\ run.pc = "returned" /\ NoValueLost(run.result.portfolio_value) =>
           run.result.metrics.total_return
               = CompoundedReturn(run.result.daily_returns)

\* A series that rises and falls and ends above the initial capital
C28_Witness ==
    /\ run.pc = "returned"
    /\ NoValueLost(run.result.portfolio_value)
    /\ \E i, j \in 1..Len(run.result.daily_returns) :
          /\ GreaterThanZero(run.result.daily_returns[i])
          /\ LessThanZero(run.result.daily_returns[j])
    /\ sim.portfolio_values[1] = initial_capital
    /\ GreaterThanZero(run.result.metrics.total_return)
    /\ run.result.metrics.total_return
           = CompoundedReturn(run.result.daily_returns)
\* ---------------------------------------------------------------------
\* The order of the columns.  Two runs side by side on the same matrices:
\* sim lists the tickers as they are, twin lists them in reverse.  twin
\* completes each date at the moment sim begins it; diverged records that
\* one of the two runs has skipped a purchase for lack of cash.

Reversed(columns) ==
    [i \in 1..Len(columns) |-> columns[Len(columns) + 1 - i]]

\* Line 461 refuses a purchase in the execution step that b begins
SkipsPurchase(b) ==
    /\ b.pc = "exec"
    /\ \E i \in 1..Len(b.buy_tickers) :
          /\ ~InvalidPrice(b.price[b.buy_tickers[i]])
          /\ ExecAll(b).holdings[b.buy_tickers[i]]
                 = b.holdings[b.buy_tickers[i]]

PermutedBeginDate(prow, wrow) ==
    /\ sim.pc = "loop"
    /\ sim.date <= Len(dates)
    /\ sim' = BeginDateOp(sim, prow, wrow)
    /\ twin' = RunDateOn(Reversed(tickers), twin, prow, wrow)
    /\ diverged' =
          \/ diverged
          \/ SkipsPurchase(BeginDateOp(sim, prow, wrow))
          \/ SkipsPurchase(BeginDateOpOn(Reversed(tickers), twin, prow, wrow))
    /\ UNCHANGED <<args, run, call>>

InitPermuted ==
    /\ tickers = <<"A", "B">>
    /\ dates = [i \in 1..NumDates |-> i]
    /\ initial_capital \in {4 * Scale, 5 * Scale}
    /\ allow_fractional = TRUE
    /\ transaction_cost \in Rates
    /\ tax = 0
    /\ slippage = 0
    /\ rebalance_dates \in SUBSET Dates
    /\ InitRuns

NextPermuted ==
    \/ \E prow \in PriceRows, wrow \in RowsRead(WeightRows) :
          PermutedBeginDate(prow, wrow)
    \/ SellOne
    \/ BuyOne
    \/ ClearPending
    \/ EndDate
    \/ Return

SpecPermuted == InitPermuted /\ [][NextPermuted]_vars

TradeSet(trades) == {trades[i] : i \in 1..Len(trades)}

\* The two runs have the same value series, the same holdings on every
\* date and the same trades on every date
SameResult ==
    /\ sim.portfolio_values = twin.portfolio_values
    /\ sim.positions_list = twin.positions_list
    /\ TradeSet(sim.trades) = TradeSet(twin.trades)
    /\ Len(sim.trades) = Len(twin.trades)

\* C29 as stated: the result of _simulate does not depend on the order of
\* the ticker columns.
C29_ColumnOrderAsStated ==
    sim.pc \in {"loop", "done"} => SameResult

\* C29: the result of _simulate does not depend on the order of the ticker
\* columns as long as no purchase is skipped for lack of cash (purchases
\* are tried in column order, each against the cash the earlier ones left)
C29_ColumnOrder ==
    sim.pc \in {"loop", "done"} /\ ~diverged => SameResult

\* Two purchases made on one date, logged in the order of the columns
C29_Witness ==
    /\ sim.pc = "done"
    /\ ~diverged
    /\ SameResult
    /\ sim.trades # twin.trades
    /\ \E i \in 1..(Len(sim.trades) - 1) :
          /\ sim.trades[i].action = "BUY"
          /\ sim.trades[i + 1].action = "BUY"
          /\ sim.trades[i].date = sim.trades[i + 1].date
====
